---- MODULE Spec2Model ----
(***************************************************************************)
(* Model of _useDatabaseRef (src/database/useDatabaseRef.ts): the binding  *)
(* of a reactive database reference to a local reactive value, with the    *)
(* promise bookkeeping behind pending/error, the reference watcher and     *)
(* stop().                                                                 *)
(*                                                                         *)
(* One state machine: UseDatabaseRef is the call itself (lines 40-163),    *)
(* SetReference/WatcherFlush are the reactive watcher (127-130),           *)
(* CatchStep/FinallyStep are the microtasks of the .catch/.finally         *)
(* handlers (110-121), RemoteValue/RemoteError are the binder's callbacks, *)
(* Stop is stop() (147-151).                                               *)
(***************************************************************************)
EXTENDS Integers, Sequences, FiniteSets, TLC

\* ---- bounds ----
\* the number of bindDatabaseRef calls one behaviour may make
MaxBinds == 3

\* ---- value domains ----
Refs == {"A", "B"}
Null == "null"
\* error.value and rejection reasons: 0 is undefined, k the error object the
\* binder of bind number k rejects with
NoReason == 0
NoBinder == "none"

\* values of data.value: undefined, null, or an object/array holding the
\* snapshot of a remote location ("A", "B") or a locally provided value
UndefV == [kind |-> "undefined", of |-> "none"]
NullV == [kind |-> "null", of |-> "none"]
LocalValues == {[kind |-> k, of |-> "local"] : k \in {"object", "array"}}
Origins == Refs \cup {"local"}
Values == {UndefV, NullV} \cup {[kind |-> k, of |-> o] : k \in {"object", "array"}, o \in Origins}

\* the unbind variable: not yet assigned, noop, or the handle returned by
\* the binder called by bind number k
Unassigned == -1
Noop == 0

\* the settings of an option in the global or the local options: not set,
\* true or false
Unset == "unset"
OnceSettings == {Unset, "true", "false"}

VARIABLES
    pc,                   \* "start" before the call, "ready" after it returned, "early" after the dev-only early return
    isRefInput,           \* isRef(reference)
    isSSR,                \* isSSR() as the call saw it at line 61
    optionsOnce,          \* options.once, the option every binder call receives
    reference,            \* unref(reference)
    data,                 \* data.value
    shouldStartAsPending,
    error,                \* error.value
    pending,              \* pending.value
    promiseValue,         \* promise.value: 0 is undefined, k the promise made by bind number k
    unbind,
    binds,                \* one record per bindDatabaseRef call: its promise chain and the binder's subscription
    watcherActive,        \* the watcher of line 129 exists and was not stopped
    watchedValue,         \* the value the watcher saw last
    pendingPromises,      \* the promises registered with the SSR pending set
    removePendingPromise, \* Noop, or k: removes promise k from the pending set
    addCalls,             \* number of addPendingPromise calls
    stopped               \* stop() has run

vars == <<pc, isRefInput, isSSR, optionsOnce, reference,
          data, shouldStartAsPending, error, pending, promiseValue, unbind, binds,
          watcherActive, watchedValue, pendingPromises, removePendingPromise, addCalls,
          stopped>>

BindIds == 1..MaxBinds

\* ---- pure helpers ----

\* Array.isArray(data.value)
IsArray(d) == d.kind = "array"

\* getInitialValue(initialSourceValue, ssrKey, data.value, app): the value of
\* the server-rendered state for the source when there is one, the fallback
\* otherwise; a null source has no entry
getInitialValue(source, ssr, fallback) ==
    IF source = Null THEN fallback
    ELSE IF ssr = UndefV THEN fallback
    ELSE ssr

\* line 45: Object.assign({}, globalDatabaseOptions, localOptions), for once
MergeOnce(globalOnce, localOnce) ==
    IF localOnce # Unset THEN localOnce ELSE globalOnce

\* a variant that lets the caller's options decide during SSR too
OnceOptionIgnoringSSR(ssrEnv, merged) == merged = "true"

\* lines 60-63: options.once as the binders read it
OnceOption(ssrEnv, merged) == IF ssrEnv THEN TRUE ELSE merged = "true"

\* a variant that always starts as pending
InitialAlwaysPending(d) == TRUE

\* line 74
InitialShouldStartAsPending(d) == d = UndefV

\* a variant that binds everything as an object
ChooseBinderObjectOnly(d) == "bindAsObject"

\* lines 98-108: which binder a bind calls
ChooseBinder(d) == IF IsArray(d) THEN "bindAsArray" ELSE "bindAsObject"

\* a variant whose executor returns without resolving
NullBindNeverSettles == "pending"

\* line 90: the state of the promise of a bind of a null reference
NullBindSettle == "fulfilled"

\* line 93: pending.value after a bind of a non-null reference
BindPending(ssp) == ssp

\* a variant whose catch handler does not record the reason
CatchErrorDropped(k, reason) == error

\* lines 110-113: error.value after the catch handler of bind k ran with reason
CatchError(k, reason) == IF promiseValue = k THEN reason ELSE error

\* a variant whose finally handler never clears pending
FinallyPendingKept(k) == pending

\* a variant whose finally handler does not compare the promises
FinallyPendingUnchecked(k) == FALSE

\* lines 116-121: pending.value after the finally handler of bind k ran
FinallyPending(k) == IF promiseValue = k THEN FALSE ELSE pending

\* a variant that stores only the promise of the first bind
PromiseValueKept(k) == IF promiseValue = 0 THEN k ELSE promiseValue

\* line 124: promise.value after bind k made its promise
NewPromiseValue(k) == k

\* a variant whose stop() leaves the watcher running
WatcherLeftRunning(active) == active

\* line 148: whether the watcher is active after stopWatcher()
StoppedWatcher(active) == FALSE

\* a variant that registers the first promise whatever the source
ShouldAddPendingAlways(source) == TRUE

\* line 134: whether the first promise is registered
ShouldAddPending(source) == source # Null

\* addPendingPromise(promise, source) of the SSR plugin: registers the promise
\* and returns the function that removes it
addPendingPromise(set, k) == set \cup {k}

\* the function addPendingPromise returned, called with the registered promise
deletePendingPromise(set, k) == set \ {k}

\* the promise a user sees for bind k (newPromise, after .catch and .finally)
PromiseState(k) ==
    IF binds[k].stage = 2 THEN binds[k].settle ELSE "pending"

PromiseReason(k) ==
    IF binds[k].stage = 2 THEN binds[k].reason ELSE NoReason

\* the subscriptions the binders attached and that are still delivering
ActiveSubs == {k \in 1..Len(binds) : binds[k].active}

\* no reaction of .catch/.finally (lines 110-121) is waiting in the microtask
\* queue: every settled promise has run its handlers
MicrotasksIdle ==
    \A j \in 1..Len(binds) : binds[j].settle = "pending" \/ binds[j].stage = 2

\* ---- bindDatabaseRef, lines 83-125 ----
\* d, ssp, pend: data.value, shouldStartAsPending and pending.value when it
\* runs; once: options.once, passed to the binder with the options
bindDatabaseRef(d, ssp, pend, once) ==
    LET k == Len(binds) + 1 IN
    /\ IF reference = Null
       THEN /\ unbind' = Noop
            /\ binds' = Append(binds, [ref |-> Null, binder |-> NoBinder, active |-> FALSE, once |-> FALSE,
                                       settle |-> NullBindSettle, reason |-> NoReason, stage |-> 0])
            /\ pending' = pend
            /\ shouldStartAsPending' = ssp
       ELSE /\ pending' = BindPending(ssp)
            /\ shouldStartAsPending' = TRUE
            /\ binds' = Append(binds, [ref |-> reference, binder |-> ChooseBinder(d), active |-> TRUE, once |-> once,
                                       settle |-> "pending", reason |-> NoReason, stage |-> 0])
            /\ unbind' = k
    /\ promiseValue' = NewPromiseValue(k)

\* ---- _useDatabaseRef, lines 40-163 ----
\* writtenTarget: options.target && checkWrittenTarget(...), lines 50-58;
\* ssrInitial: what the server-rendered state holds for the source;
\* ssrEnv: isSSR(); globalOnce, localOnce: once in globalDatabaseOptions and
\* in localOptions
UseDatabaseRefWith(writtenTarget, ssrInitial, ssrEnv, globalOnce, localOnce) ==
    /\ pc = "start"
    /\ (writtenTarget => data # UndefV)
    /\ isSSR' = ssrEnv
    /\ IF writtenTarget
       THEN /\ pc' = "early"
            /\ UNCHANGED <<optionsOnce, data, shouldStartAsPending, error, pending, promiseValue, unbind, binds,
                           watcherActive, watchedValue, pendingPromises, removePendingPromise,
                           addCalls>>
       ELSE LET d == getInitialValue(reference, ssrInitial, data) IN
            /\ pc' = "ready"
            /\ data' = d
            /\ error' = NoReason
            /\ optionsOnce' = OnceOption(ssrEnv, MergeOnce(globalOnce, localOnce))
            /\ bindDatabaseRef(d, InitialShouldStartAsPending(d), FALSE,
                               OnceOption(ssrEnv, MergeOnce(globalOnce, localOnce)))
            /\ watcherActive' = isRefInput
            /\ watchedValue' = reference
            /\ IF ShouldAddPending(reference)
               THEN /\ pendingPromises' = addPendingPromise(pendingPromises, Len(binds) + 1)
                    /\ removePendingPromise' = Len(binds) + 1
                    /\ addCalls' = addCalls + 1
               ELSE UNCHANGED <<pendingPromises, removePendingPromise, addCalls>>
    /\ UNCHANGED <<isRefInput, reference, stopped>>

\* the call in a browser with once set by neither the global nor the local
\* options
UseDatabaseRef(writtenTarget, ssrInitial) ==
    UseDatabaseRefWith(writtenTarget, ssrInitial, FALSE, Unset, Unset)

\* ---- the reactive reference and its watcher, lines 127-130 ----
\* the owner assigns the reference
SetReference(v) ==
    /\ pc = "ready"
    /\ isRefInput
    /\ v # reference
    /\ reference' = v
    /\ UNCHANGED <<pc, isRefInput, isSSR, optionsOnce,
                   data, shouldStartAsPending, error, pending, promiseValue, unbind,
                   binds, watcherActive, watchedValue, pendingPromises, removePendingPromise,
                   addCalls, stopped>>

\* the watcher's job runs: the callback is called when the value differs
\* from the one seen last
WatcherFlush ==
    /\ pc = "ready"
    /\ watcherActive
    /\ reference # watchedValue
    /\ Len(binds) < MaxBinds
    /\ watchedValue' = reference
    /\ bindDatabaseRef(data, shouldStartAsPending, pending, optionsOnce)
    /\ UNCHANGED <<pc, isRefInput, isSSR, optionsOnce,
                   reference, data, error, watcherActive, pendingPromises,
                   removePendingPromise, addCalls, stopped>>

\* ---- the binder's callbacks ----
\* The remote events reach the binder in tasks of the event loop, and a task
\* starts only once the microtask queue is empty: no remote event comes
\* between a settlement and the handlers it queued.  The owner's own calls
\* (SetReference, Stop, WriteData) and the watcher's job may run in
\* microtasks and interleave freely.
\* a value arrives on the subscription of bind k: the binder writes it to the
\* target and calls resolve; with once it gets the data a single time
RemoteValue(k) ==
    /\ pc = "ready"
    /\ k \in ActiveSubs
    /\ MicrotasksIdle
    /\ data' = [kind |-> IF binds[k].binder = "bindAsArray" THEN "array" ELSE "object",
                of |-> binds[k].ref]
    /\ binds' = [binds EXCEPT ![k].settle = IF @ = "pending" THEN "fulfilled" ELSE @,
                              ![k].active = ~binds[k].once]
    /\ UNCHANGED <<pc, isRefInput, isSSR, optionsOnce,
                   reference, shouldStartAsPending, error, pending, promiseValue,
                   unbind, watcherActive, watchedValue, pendingPromises, removePendingPromise,
                   addCalls, stopped>>

\* the subscription of bind k is cancelled with an error: the binder calls
\* reject with the error object of that failure
RemoteError(k) ==
    /\ pc = "ready"
    /\ k \in ActiveSubs
    /\ MicrotasksIdle
    /\ binds' = [binds EXCEPT ![k].active = FALSE,
                              ![k].settle = IF binds[k].settle = "pending" THEN "rejected" ELSE @,
                              ![k].reason = IF binds[k].settle = "pending" THEN k ELSE @]
    /\ UNCHANGED <<pc, isRefInput, isSSR, optionsOnce,
                   reference, data, shouldStartAsPending, error, pending,
                   promiseValue, unbind, watcherActive, watchedValue, pendingPromises,
                   removePendingPromise, addCalls, stopped>>

\* ---- the promise handlers, lines 110-121 ----
\* the reaction of .catch runs once the executor's promise is settled
CatchStep(k) ==
    /\ pc = "ready"
    /\ k \in 1..Len(binds)
    /\ binds[k].settle # "pending"
    /\ binds[k].stage = 0
    /\ binds' = [binds EXCEPT ![k].stage = 1]
    /\ error' = IF binds[k].settle = "rejected" THEN CatchError(k, binds[k].reason) ELSE error
    /\ UNCHANGED <<pc, isRefInput, isSSR, optionsOnce,
                   reference, data, shouldStartAsPending, pending, promiseValue,
                   unbind, watcherActive, watchedValue, pendingPromises, removePendingPromise,
                   addCalls, stopped>>

\* the reaction of .finally runs, then newPromise is settled
FinallyStep(k) ==
    /\ pc = "ready"
    /\ k \in 1..Len(binds)
    /\ binds[k].stage = 1
    /\ binds' = [binds EXCEPT ![k].stage = 2]
    /\ pending' = FinallyPending(k)
    /\ UNCHANGED <<pc, isRefInput, isSSR, optionsOnce,
                   reference, data, shouldStartAsPending, error, promiseValue,
                   unbind, watcherActive, watchedValue, pendingPromises, removePendingPromise,
                   addCalls, stopped>>

\* ---- stop, lines 147-151 ----
stop(reset) ==
    /\ watcherActive' = StoppedWatcher(watcherActive)
    /\ pendingPromises' = IF removePendingPromise = Noop THEN pendingPromises
                          ELSE deletePendingPromise(pendingPromises, removePendingPromise)
    /\ IF unbind = Noop
       THEN UNCHANGED <<binds, data>>
       ELSE /\ binds' = [binds EXCEPT ![unbind].active = FALSE]
            /\ data' = IF reset THEN NullV ELSE data
    /\ stopped' = TRUE

\* stop(reset) is called: by the user with any reset, or by the disposal of
\* the owning scope (lines 138-139) with reset = options.reset
Stop(reset) ==
    /\ pc = "ready"
    /\ stop(reset)
    /\ UNCHANGED <<pc, isRefInput, isSSR, optionsOnce,
                   reference, shouldStartAsPending, error, pending, promiseValue,
                   unbind, watchedValue, removePendingPromise, addCalls>>

\* the owner writes the exposed data ref
WriteData(v) ==
    /\ pc = "ready"
    /\ v # data
    /\ data' = v
    /\ UNCHANGED <<pc, isRefInput, isSSR, optionsOnce,
                   reference, shouldStartAsPending, error, pending, promiseValue,
                   unbind, binds, watcherActive, watchedValue, pendingPromises,
                   removePendingPromise, addCalls, stopped>>

\* ---- specification ----
Init ==
    /\ pc = "start"
    /\ isRefInput \in BOOLEAN
    /\ isSSR = FALSE
    /\ optionsOnce = FALSE
    /\ reference \in Refs \cup {Null}
    /\ data \in {UndefV} \cup LocalValues
    /\ shouldStartAsPending = FALSE
    /\ error = NoReason
    /\ pending = FALSE
    /\ promiseValue = 0
    /\ unbind = Unassigned
    /\ binds = <<>>
    /\ watcherActive = FALSE
    /\ watchedValue = Null
    /\ pendingPromises = {}
    /\ removePendingPromise = Noop
    /\ addCalls = 0
    /\ stopped = FALSE

\* the steps that follow the call: of the watcher, of the promises, of the
\* remote side and of stop()
AfterCallStep ==
    \/ \E v \in Refs \cup {Null} : SetReference(v)
    \/ WatcherFlush
    \/ \E k \in BindIds : RemoteValue(k)
    \/ \E k \in BindIds : RemoteError(k)
    \/ \E k \in BindIds : CatchStep(k)
    \/ \E k \in BindIds : FinallyStep(k)
    \/ \E reset \in BOOLEAN : Stop(reset)

\* the steps of the binding itself, of its promises and of the remote side
BindingStep ==
    \/ \E writtenTarget \in BOOLEAN, ssrInitial \in {UndefV} \cup LocalValues :
          UseDatabaseRef(writtenTarget, ssrInitial)
    \/ AfterCallStep

Next ==
    \/ BindingStep
    \/ \E v \in LocalValues : WriteData(v)

Spec == Init /\ [][Next]_vars

\* Liveness: the reactions of settled promises are microtasks and the
\* watcher's job is a scheduler job, both always run; nothing is assumed of
\* the remote side, which may never answer.  The owner's writes to data take
\* no part in the promise bookkeeping and are left out.
FairNext == BindingStep

FairSpec ==
    /\ Init /\ [][FairNext]_vars
    /\ \A k \in BindIds : WF_vars(CatchStep(k)) /\ WF_vars(FinallyStep(k))
    /\ WF_vars(WatcherFlush)

\* The call on the server or in a browser, with every setting of once in the
\* global and in the local options.  The owner's writes to data take no part
\* in the options a binder receives and are left out.
SsrNext ==
    \/ \E writtenTarget \in BOOLEAN, ssrInitial \in {UndefV} \cup LocalValues,
          ssrEnv \in BOOLEAN, globalOnce \in OnceSettings, localOnce \in OnceSettings :
          UseDatabaseRefWith(writtenTarget, ssrInitial, ssrEnv, globalOnce, localOnce)
    \/ AfterCallStep

SsrSpec == Init /\ [][SsrNext]_vars

TypeOK ==
    /\ pc \in {"start", "ready", "early"}
    /\ data \in Values
    /\ error \in {NoReason} \cup BindIds
    /\ pending \in BOOLEAN
    /\ promiseValue \in 0..MaxBinds
    /\ unbind \in {Unassigned, Noop} \cup BindIds
    /\ Len(binds) <= MaxBinds

\* ---- properties ----

\* a bind that a later bindDatabaseRef call has replaced
Replaced(k) == k < Len(binds)

\* C1: after stop() has run, no subscription that a binder attached for this
\* call is still active, whatever reference changes came before.
C1_NoSubscriptionAfterStop == stopped => ActiveSubs = {}

\* C2: once bindDatabaseRef has run for a new reference value, no remote
\* event delivered through the subscription of an earlier bind writes data.
C2_NoWriteFromReplacedBind ==
    [][\A k \in BindIds : (Replaced(k) /\ RemoteValue(k)) => data' = data]_vars

\* C3: at most one subscription of this call is active at any time, and the
\* stored unbind handle is the one that cancels it.
C3_SingleCancellableHandle ==
    pc = "ready" => /\ Cardinality(ActiveSubs) <= 1
                    /\ ActiveSubs \subseteq {unbind}

\* the step runs the catch handler's reaction of bind k
RanCatch(k) == k <= Len(binds) /\ binds[k].stage = 0 /\ binds'[k].stage = 1

\* the step runs the finally handler of bind k
RanFinally(k) == k <= Len(binds) /\ binds[k].stage = 1 /\ binds'[k].stage = 2

\* C4: when _useDatabaseRef returns, pending is true exactly when the initial
\* reference is non-null and data.value is undefined after hydration; it is
\* false when a hydrated value exists and when the initial reference is null.
C4_InitialPending ==
    [][(pc = "start" /\ pc' = "ready") =>
          pending' = (reference' # Null /\ data' = UndefV)]_vars

\* C4 witness: the call returned with a non-null reference and a hydrated
\* value, nothing has settled yet, and pending is false.
C4_Witness ==
    /\ pc = "ready"
    /\ Len(binds) = 1
    /\ binds[1].ref # Null
    /\ binds[1].settle = "pending"
    /\ data \in LocalValues
    /\ ~pending

\* C5: when the finally handler of the promise stored in promise.value runs,
\* pending becomes false; if the promise was rejected with reason r, error is
\* r and the exposed promise is rejected with r; if it was fulfilled, neither
\* of its handlers changes error and the exposed promise is fulfilled.
C5_CurrentSettlement ==
    [][\A k \in BindIds :
          /\ (RanFinally(k) /\ promiseValue = k) =>
                /\ pending' = FALSE
                /\ IF binds[k].settle = "rejected"
                   THEN /\ error' = binds[k].reason
                        /\ PromiseState(k)' = "rejected"
                        /\ PromiseReason(k)' = binds[k].reason
                   ELSE /\ error' = error
                        /\ PromiseState(k)' = "fulfilled"
          /\ (RanCatch(k) /\ promiseValue = k /\ binds[k].settle = "fulfilled") =>
                error' = error]_vars

\* C5 witness: the current promise, made by a rebind, was rejected, its
\* handlers ran, error holds its reason and pending is false.
C5_Witness ==
    \E k \in 2..Len(binds) :
        /\ promiseValue = k
        /\ PromiseState(k) = "rejected"
        /\ error = PromiseReason(k)
        /\ ~pending

\* bind k bound a null reference and no later bind has run
NullBindLatest(k) == pc = "ready" /\ Len(binds) = k /\ binds[k].ref = Null

\* bind k bound a null reference
NullBind(k) == pc = "ready" /\ k <= Len(binds) /\ binds[k].ref = Null

\* C6 as stated: whenever bindDatabaseRef runs while the reference is null,
\* pending is eventually false.
C6_NullBindPendingEventuallyFalse ==
    \A k \in BindIds : NullBindLatest(k) ~> (pending = FALSE)

\* C6 as amended: a bind of a null reference calls no binder, its promise is
\* eventually fulfilled, and pending is eventually false unless a later
\* bindDatabaseRef call replaces the promise first.
C6_NullBindSettles ==
    \A k \in BindIds :
        /\ [](NullBind(k) => binds[k].binder = NoBinder /\ ~binds[k].active)
        /\ NullBind(k) ~> (NullBind(k) /\ PromiseState(k) = "fulfilled")
        /\ NullBindLatest(k) ~> (pending = FALSE \/ Len(binds) > k)

\* C6 witness: the reference became null while the previous bind was still
\* pending; the null bind is the latest, its handlers ran, pending is false.
C6_Witness ==
    \E k \in 2..Len(binds) :
        /\ NullBindLatest(k)
        /\ PromiseState(k) = "fulfilled"
        /\ binds[k - 1].ref # Null
        /\ binds[k - 1].settle = "pending"
        /\ data = UndefV
        /\ ~pending

\* C7: every bindDatabaseRef call after the first one that binds a non-null
\* reference sets pending to true, hydrated first bind or not.
C7_RebindSetsPending ==
    [][(WatcherFlush /\ reference # Null) => pending' = TRUE]_vars

\* C8: the handlers of a promise that a later bindDatabaseRef call has
\* replaced in promise.value change neither pending nor error.
C8_StaleSettlementIgnored ==
    [][\A k \in BindIds :
          ((RanCatch(k) \/ RanFinally(k)) /\ promiseValue # k) =>
              (pending' = pending /\ error' = error)]_vars

\* C8 witness: a replaced promise was rejected and ran both handlers, no
\* error was ever recorded, and pending is still true for the current bind.
C8_Witness ==
    \E k \in 1..Len(binds) :
        /\ k < promiseValue
        /\ PromiseState(k) = "rejected"
        /\ error = NoReason
        /\ binds[promiseValue].settle = "pending"
        /\ pending

\* C9: addPendingPromise is called at most once, with the promise of the
\* initial bind and only when the initial reference is non-null; no promise
\* of a rebind is ever registered; stop() removes the registered promise.
C9_OnlyFirstPromiseRegistered ==
    /\ addCalls <= 1
    /\ pendingPromises \subseteq {1}
    /\ (addCalls = 1 <=> (pc = "ready" /\ binds[1].ref # Null))
    /\ (pc = "ready" /\ ~stopped => (1 \in pendingPromises <=> binds[1].ref # Null))
    /\ (stopped => pendingPromises = {})

\* C9 witness: the first promise was registered, rebinds followed, stop() ran
\* and the pending set is empty.
C9_Witness ==
    /\ stopped
    /\ addCalls = 1
    /\ Len(binds) >= 2
    /\ pendingPromises = {}

\* C10: every bindDatabaseRef call with a non-null reference calls exactly
\* one binder, bindAsArray if data.value is an array at that moment and
\* bindAsObject otherwise, and stores the handle it returns as unbind.
C10_BinderSelection ==
    [][(Len(binds') = Len(binds) + 1 /\ reference' # Null) =>
          LET k == Len(binds') IN
          /\ binds'[k].binder = (IF data'.kind = "array" THEN "bindAsArray" ELSE "bindAsObject")
          /\ binds'[k].active
          /\ binds'[k].ref = reference'
          /\ unbind' = k]_vars

\* C10 witness: a rebind chose bindAsArray after an earlier bind had chosen
\* bindAsObject.
C10_Witness ==
    \E k \in 2..Len(binds) :
        /\ binds[k].binder = "bindAsArray"
        /\ \E j \in 1..(k - 1) : binds[j].binder = "bindAsObject"
        /\ unbind = k

\* C11: when isSSR() is true, every binder call of this function, of the
\* initial bind and of every rebind, receives options with once = true,
\* whatever the local and the global options set once to.
C11_OnceDuringSSR ==
    (pc = "ready" /\ isSSR) =>
        \A k \in 1..Len(binds) : binds[k].binder # NoBinder => binds[k].once

\* C11 witness: on the server the initial bind and a rebind each called a
\* binder, both with once = true.
C11_Witness ==
    /\ pc = "ready"
    /\ isSSR
    /\ \E j, k \in 1..Len(binds) :
          /\ j < k
          /\ binds[j].binder # NoBinder /\ binds[j].once
          /\ binds[k].binder # NoBinder /\ binds[k].once

\* C12: once the call has returned its result with the promise property,
\* promise.value is never undefined; every bindDatabaseRef call stores its
\* fresh promise before any handler of that promise has run; so when a
\* handler compares promise.value with its own promise they are the same
\* unless a later bind has happened.
C12_PromiseValueFresh ==
    [][/\ pc' = "ready" => promiseValue' \in 1..Len(binds')
       /\ Len(binds') > Len(binds) =>
             /\ promiseValue' = Len(binds')
             /\ binds'[Len(binds')].stage = 0
       /\ \A k \in BindIds :
             (RanCatch(k) \/ RanFinally(k)) => (promiseValue = k <=> Len(binds) = k)]_vars

\* C12 witness: the promise of a rebind of a non-null reference is the one in
\* promise.value and ran its handlers, which found the promises equal and
\* cleared pending.
C12_Witness ==
    \E k \in 2..Len(binds) :
        /\ k = Len(binds)
        /\ promiseValue = k
        /\ binds[k].ref # Null
        /\ binds[k].stage = 2
        /\ ~pending

\* C13: after stop() has been called, no step runs bindDatabaseRef again: no
\* binder is called, promise.value is not replaced and pending is not set
\* to true, whatever the reference is changed to.
C13_NoRebindAfterStop ==
    [][stopped =>
          /\ Len(binds') = Len(binds)
          /\ ActiveSubs' \subseteq ActiveSubs
          /\ promiseValue' = promiseValue
          /\ (pending' => pending)]_vars

\* C13 witness: stop() has run, the reference is reactive and was changed to
\* a non-null value the watcher never bound, and the binds made so far
\* leave room for one more.
C13_Witness ==
    /\ stopped
    /\ isRefInput
    /\ reference # Null
    /\ reference # watchedValue
    /\ \A k \in 1..Len(binds) : binds[k].ref # reference
    /\ Len(binds) < MaxBinds

\* C14: whenever pending is true, the promise stored in promise.value has
\* not settled: its finally handler has not run yet.
C14_PendingImpliesUnsettled ==
    (pc = "ready" /\ pending) => PromiseState(promiseValue) = "pending"

\* C14 witness: the current promise was rejected and ran its handlers after
\* pending had been true for it, and pending is false.
C14_Witness ==
    /\ pc = "ready"
    /\ binds[promiseValue].ref # Null
    /\ PromiseState(promiseValue) = "rejected"
    /\ error = promiseValue
    /\ data = UndefV
    /\ ~pending
====
